---- MODULE Spec2Model ----
(***************************************************************************)
(* Job supervisor of the Claude Code plugin: the tools claude_code_start,  *)
(* claude_code_status, claude_code_cancel and claude_code_cleanup, the     *)
(* background watcher of a job and the start-up orphan recovery, over the  *)
(* SessionManager store (session.json, jobs/<id>.json, jobs/<id>.log) and  *)
(* the PodmanRunner runtime.  Every handler is an async function: each     *)
(* action below is the code between two awaits that touch shared state     *)
(* (the files of the store, the containers of the runtime).                *)
(*                                                                         *)
(* One session key is modelled; its container name is derived from the key *)
(* so the session has at most one container at a time.                     *)
(***************************************************************************)
EXTENDS Integers, Sequences, FiniteSets, TLC

\* Number of claude_code_start calls (each allocates one fresh job id).
MaxJobs == 2

\* Exit code of a container killed by the kernel or by `podman kill`.
OomExitCode == 137
\* A null exit code (JobState.exitCode: null; no status from the runtime).
NoCode == -1
ExitCodes == {0, 1, OomExitCode}

\* Job ids, in the order of their allocation.  The claude_code_start call
\* that allocates job j is call j.
Jobs == 1..MaxJobs
StartCalls == Jobs

\* Number of claude_code_cancel and claude_code_status calls.
MaxCalls == 2

\* Number of lines of a container's output in the runs that explore the
\* output log.
MaxFragments == 3

\* Number of characters of an output log, largest offset and largest limit
\* in the calls of readJobOutput.
MaxChars == 3
MaxOffset == 7
MaxLimit == 7

\* Number of characters after which the session keys and the container names
\* of the name helpers end.
MaxKeyLen == 3

\* Number of concurrent callers of the session store and number of ticks of
\* the clock in the runs that explore lastActivity.
MaxWriters == 2
MaxReaders == 2
MaxClock == 2

Active == {"pending", "running"}
Terminal == {"completed", "failed", "cancelled"}

NoSession == [exists |-> FALSE, activeJobId |-> NoCode, idle |-> FALSE]
NoContainer == [exists |-> FALSE, running |-> FALSE, exitCode |-> NoCode,
                lines |-> <<>>, owner |-> NoCode]
NoJob == [status |-> "absent", completedAt |-> "null",
          exitCode |-> NoCode, errorType |-> "null", errorMessage |-> "null",
          metrics |-> "null"]

(***************************************************************************)
(* Lines of the stream-json transcript, by the fields the parser probes.   *)
(***************************************************************************)
TextLine == [json |-> "object", eventType |-> "content_block_delta", text |-> "t",
             type |-> "none", is_error |-> FALSE, result |-> "none"]
RateLimitLine == [json |-> "object", eventType |-> "none", text |-> "",
                  type |-> "result", is_error |-> TRUE,
                  result |-> "hit your limit resets 8pm (UTC)"]
\* A second text delta, with another text.
TextLineB == [TextLine EXCEPT !.text = "u"]
\* The same message in a result event that is not an error: not a signal.
RateLimitTextOkLine == [json |-> "object", eventType |-> "none", text |-> "",
                  type |-> "result", is_error |-> FALSE,
                  result |-> "hit your limit resets 8pm (UTC)"]
OtherErrorLine == [json |-> "object", eventType |-> "none", text |-> "",
                  type |-> "result", is_error |-> TRUE, result |-> "boom"]
AuthExpiredLine == [json |-> "object", eventType |-> "none", text |-> "",
                  type |-> "result", is_error |-> TRUE,
                  result |-> "OAuth token has expired"]
AuthFailedLine == [json |-> "object", eventType |-> "none", text |-> "",
                  type |-> "result", is_error |-> TRUE,
                  result |-> "Failed to authenticate"]

\* JSON.parse succeeded, the value is an object, event.type is
\* content_block_delta and event.delta.text is non-empty.
parseStreamLine(line) ==
    IF line.json = "object" /\ line.eventType = "content_block_delta" /\ line.text # ""
    THEN [type |-> "text", content |-> line.text]
    ELSE [type |-> "null", content |-> ""]

\* rateLimitRegex.exec(event.result) on the result texts of the model.
rateLimitRegexMatches(result) == result = "hit your limit resets 8pm (UTC)"

\* TRUE when parseRateLimitError returns a RateLimitInfo, FALSE when null.
parseRateLimitError(line) ==
    /\ line.json = "object"
    /\ line.type = "result"
    /\ line.is_error
    /\ line.result # "none"
    /\ rateLimitRegexMatches(line.result)

\* The errorType of the AuthErrorInfo parseAuthError returns, "null" when it
\* returns null.
parseAuthError(line) ==
    IF ~(line.json = "object" /\ line.type = "result" /\ line.is_error
         /\ line.result # "none")
    THEN "null"
    ELSE IF line.result = "OAuth token has expired" THEN "token_expired"
    ELSE IF line.result = "Failed to authenticate" THEN "authentication_failed"
    ELSE "null"

RECURSIVE extractTextFromStream(_)
extractTextFromStream(lines) ==
    IF lines = <<>> THEN <<>>
    ELSE LET e == parseStreamLine(Head(lines))
         IN  (IF e.type = "text" THEN <<e.content>> ELSE <<>>)
             \o extractTextFromStream(Tail(lines))

\* Exit codes and transcripts a container of the model may produce: all of
\* them in a run that explores the data, two and one otherwise.
AllTranscripts == {<<>>, <<RateLimitLine>>, <<TextLine, RateLimitTextOkLine>>,
                   <<OtherErrorLine>>, <<AuthExpiredLine>>, <<AuthFailedLine>>}
CodesOf(rich) == IF rich THEN ExitCodes ELSE {0, 1}
TranscriptsOf(rich) == IF rich THEN AllTranscripts ELSE {<<>>}

VARIABLES
    session,      \* session.json of the session, or NoSession
    jobsDir,      \* the directory <session>/jobs exists
    job,          \* job[j]: jobs/<j>.json, or NoJob
    log,          \* log[j]: text fragments appended to jobs/<j>.log
    container,    \* the container named after the session, or NoContainer
    start,        \* start[j]: the claude_code_start call that allocates job j
    watch,        \* watch[j]: the watcher of job j
    cancel,       \* the claude_code_cancel call in flight
    status,       \* the claude_code_status call in flight
    recover,      \* recoverOrphanedJobs, started by register()
    cleanup,      \* the claude_code_cleanup call in flight
    notified,     \* notified[j]: completion notifications posted for job j
    calls,        \* claude_code_cancel and claude_code_status calls made so far
    limits,       \* what the run explored may contain; never changes
    workspace,    \* the directory workspaces/<sessionKey> exists
    call          \* a call of a function of the store, the parser or the
                  \* runner on its own: its arguments and what it returned

vars == <<session, jobsDir, job, log, container, start, watch, cancel, status,
          recover, cleanup, notified, calls, limits, workspace, call>>

storeVars == <<session, jobsDir, job, log>>
handlerVars == <<cancel, status, recover, cleanup, calls, limits>>

IdleStart == [pc |-> "idle", err |-> "none", caught |-> "none", copy |-> NoJob,
              wrote |-> FALSE]
\* lines: the lines the stream callback was given (kept for the properties).
IdleWatch == [pc |-> "none", exitCode |-> NoCode, rateLimit |-> FALSE, copy |-> NoJob,
              pending |-> <<>>, lines |-> <<>>]

\* { ...job, ...updates } of updateJob: the fields named in `fields` come from
\* `updates`, the others from the record that was read.
Merge(read, updates, fields) ==
    [f \in DOMAIN read |-> IF f \in fields THEN updates[f] ELSE read[f]]

(***************************************************************************)
(* Store primitives.                                                       *)
(***************************************************************************)

\* createSession: a fresh record, activeJobId null, lastActivity now.
FreshSession == [exists |-> TRUE, activeJobId |-> NoCode, idle |-> FALSE]

\* setActiveJob after its getSession found the record: activeJobId and
\* lastActivity are replaced.
SetActiveJobRecord(s, jobId) == [s EXCEPT !.activeJobId = jobId, !.idle = FALSE]

\* getActiveJob: the record the pointer resolves to, NoJob when the pointer
\* is null or the job file is absent.
getActiveJob == IF session.exists /\ session.activeJobId # NoCode
                THEN job[session.activeJobId] ELSE NoJob

getActiveJobId == IF session.exists /\ session.activeJobId # NoCode
                     /\ job[session.activeJobId].status # "absent"
                  THEN session.activeJobId ELSE NoCode

\* killContainer: podman kill, then podman rm -f; never fails.
killContainer == container' = NoContainer

(***************************************************************************)
(* claude_code_start                                                       *)
(***************************************************************************)

\* Parameter and environment checks that touch no shared state: prompt,
\* getAuth, checkImage.
StartCall(j, promptOk, authOk, imageOk) ==
    /\ j <= limits.starts
    /\ start[j].pc \in {"idle", "rejected"}
    /\ \A k \in 1..(j - 1) : start[k].pc \notin {"idle", "rejected"}
    /\ start' = [start EXCEPT ![j] =
          IF ~promptOk THEN [IdleStart EXCEPT !.pc = "rejected", !.err = "prompt"]
          ELSE IF ~authOk THEN [IdleStart EXCEPT !.pc = "rejected", !.err = "auth"]
          ELSE IF ~imageOk THEN [IdleStart EXCEPT !.pc = "rejected", !.err = "image"]
          ELSE [IdleStart EXCEPT !.pc = "getSession"]]
    /\ UNCHANGED <<storeVars, container, watch, handlerVars, notified, workspace, call>>

\* getOrCreateSession, first half: getSession.
StartGetSession(j) ==
    /\ start[j].pc = "getSession"
    /\ start' = [start EXCEPT ![j].pc =
                    IF session.exists THEN "check" ELSE "createSession"]
    /\ UNCHANGED <<storeVars, container, watch, handlerVars, notified, workspace, call>>

\* getOrCreateSession, second half: createSession makes the directories of the
\* session and of its workspace and writes a fresh record.
StartCreateSession(j) ==
    /\ start[j].pc = "createSession"
    /\ session' = FreshSession
    /\ workspace' = TRUE
    /\ start' = [start EXCEPT ![j].pc = "check", ![j].wrote = TRUE]
    /\ UNCHANGED <<jobsDir, job, log, container, watch, handlerVars, notified, call>>

\* getActiveJob and the active-job check.
StartCheckActive(j) ==
    /\ start[j].pc = "check"
    /\ start' = [start EXCEPT ![j] =
          IF getActiveJob.status \in Active
          THEN [@ EXCEPT !.pc = "rejected", !.err = "already has an active job"]
          ELSE [@ EXCEPT !.pc = "createJob"]]
    /\ UNCHANGED <<storeVars, container, watch, handlerVars, notified, workspace, call>>

\* createJob: mkdir jobs, write the pending record and the empty log.
StartCreateJob(j) ==
    /\ start[j].pc = "createJob"
    /\ jobsDir' = TRUE
    /\ job' = [job EXCEPT ![j] = [NoJob EXCEPT !.status = "pending"]]
    /\ log' = [log EXCEPT ![j] = <<>>]
    /\ start' = [start EXCEPT ![j].pc = "kill", ![j].wrote = TRUE]
    /\ UNCHANGED <<session, container, watch, handlerVars, notified, workspace, call>>

\* startDetached, first half: killContainer removes a stale container.
StartKill(j) ==
    /\ start[j].pc = "kill"
    /\ killContainer
    /\ start' = [start EXCEPT ![j].pc = "run"]
    /\ UNCHANGED <<storeVars, watch, handlerVars, notified, workspace, call>>

\* startDetached, second half: podman run --detach --name.  It fails when the
\* name is in use and may fail for any reason of the runtime.
StartRun(j, ok, lines) ==
    /\ start[j].pc = "run"
    /\ IF ok /\ ~container.exists
       THEN /\ container' = [exists |-> TRUE, running |-> TRUE, exitCode |-> 0,
                             lines |-> lines, owner |-> j]
            /\ start' = [start EXCEPT ![j].pc = "runningRead"]
       ELSE /\ container' = container
            /\ start' = [start EXCEPT ![j].pc = "failedRead", ![j].caught = "runtime"]
    /\ UNCHANGED <<storeVars, watch, handlerVars, notified, workspace, call>>

\* updateJob(running), first half: getJob.
StartRunningRead(j) ==
    /\ start[j].pc = "runningRead"
    /\ start' = [start EXCEPT ![j] =
          IF job[j].status = "absent"
          THEN [@ EXCEPT !.pc = "failedRead", !.caught = "Job not found"]
          ELSE [@ EXCEPT !.pc = "runningWrite", !.copy = job[j]]]
    /\ UNCHANGED <<storeVars, container, watch, handlerVars, notified, workspace, call>>

\* updateJob(running): `updated`, the record written to the temp file.
updatedByStart(j) == Merge(start[j].copy, [status |-> "running"], {"status"})

\* updateJob(running), second half: temp file and rename.
StartRunningWrite(j) ==
    /\ start[j].pc = "runningWrite"
    /\ IF jobsDir
       THEN /\ job' = [job EXCEPT ![j] = updatedByStart(j)]
            /\ start' = [start EXCEPT ![j].pc = "setActive", ![j].copy = NoJob]
       ELSE /\ job' = job
            /\ start' = [start EXCEPT ![j].pc = "failedRead", ![j].copy = NoJob,
                                      ![j].caught = "ENOENT"]
    /\ UNCHANGED <<session, jobsDir, log, container, watch, handlerVars, notified, workspace, call>>

\* setActiveJob(jobId), then watchJobCompletion and the return.
StartSetActive(j) ==
    /\ start[j].pc = "setActive"
    /\ IF session.exists
       THEN /\ session' = SetActiveJobRecord(session, j)
            /\ watch' = [watch EXCEPT ![j].pc = "stream"]
            /\ start' = [start EXCEPT ![j].pc = "done"]
       ELSE /\ UNCHANGED <<session, watch>>
            /\ start' = [start EXCEPT ![j].pc = "failedRead",
                                      ![j].caught = "Session not found"]
    /\ UNCHANGED <<jobsDir, job, log, container, handlerVars, notified, workspace, call>>

\* catch: updateJob(failed), first half.  When it throws, its error replaces
\* the caught one.
StartFailedRead(j) ==
    /\ start[j].pc = "failedRead"
    /\ start' = [start EXCEPT ![j] =
          IF job[j].status = "absent"
          THEN [@ EXCEPT !.pc = "threw", !.err = "Job not found"]
          ELSE [@ EXCEPT !.pc = "failedWrite", !.copy = job[j]]]
    /\ UNCHANGED <<storeVars, container, watch, handlerVars, notified, workspace, call>>

\* catch: updateJob(failed): `updated`, the record written to the temp file.
updatedByStartCatch(j) ==
    Merge(start[j].copy,
          [status |-> "failed", completedAt |-> "start",
           errorMessage |-> start[j].caught],
          {"status", "completedAt", "errorMessage"})

\* catch: updateJob(failed), second half, then `throw err`.
StartFailedWrite(j) ==
    /\ start[j].pc = "failedWrite"
    /\ IF jobsDir
       THEN /\ job' = [job EXCEPT ![j] = updatedByStartCatch(j)]
            /\ start' = [start EXCEPT ![j].pc = "threw", ![j].copy = NoJob,
                                      ![j].err = start[j].caught]
       ELSE /\ job' = job
            /\ start' = [start EXCEPT ![j].pc = "threw", ![j].copy = NoJob,
                                      ![j].err = "ENOENT"]
    /\ UNCHANGED <<session, jobsDir, log, container, watch, handlerVars, notified, workspace, call>>

(***************************************************************************)
(* The runtime: a running container exits on its own.                      *)
(***************************************************************************)
ContainerExit(code) ==
    /\ container.exists /\ container.running
    /\ container' = [container EXCEPT !.running = FALSE, !.exitCode = code]
    /\ UNCHANGED <<storeVars, start, watch, handlerVars, notified, workspace, call>>

(***************************************************************************)
(* watchJobCompletion                                                      *)
(***************************************************************************)

\* The rate-limit check of the stream callback over all lines of the stream.
RateLimitSeen(lines) == \E i \in 1..Len(lines) : parseRateLimitError(lines[i])

\* A classification that looks at the exit code first.
WatcherClassifyExitCodeFirst(rateLimit, exitCode) ==
    IF exitCode = OomExitCode
    THEN [status |-> "failed", errorType |-> "oom", errorMessage |-> "null"]
    ELSE IF exitCode # 0
    THEN [status |-> "failed", errorType |-> "crash", errorMessage |-> "null"]
    ELSE IF rateLimit
    THEN [status |-> "failed", errorType |-> "rate_limit", errorMessage |-> "rate limit"]
    ELSE [status |-> "completed", errorType |-> "null", errorMessage |-> "null"]

\* "Determine status and error type": status, errorType and errorMessage from
\* rateLimitInfo and the exit code.
WatcherClassify(rateLimit, exitCode) ==
    IF rateLimit
    THEN [status |-> "failed", errorType |-> "rate_limit", errorMessage |-> "rate limit"]
    ELSE IF exitCode = OomExitCode
    THEN [status |-> "failed", errorType |-> "oom", errorMessage |-> "null"]
    ELSE IF exitCode # 0
    THEN [status |-> "failed", errorType |-> "crash", errorMessage |-> "null"]
    ELSE [status |-> "completed", errorType |-> "null", errorMessage |-> "null"]

\* PodmanRunner.streamContainerLogs (Runtime.StreamLogs): it yields the output
\* of the container in arrival order, ends when the container has exited or
\* is gone, and reports the exit code (unknown when the container is gone).
streamContainerLogs ==
    [ended |-> ~(container.exists /\ container.running),
     lines |-> IF container.exists THEN container.lines ELSE <<>>,
     exitCode |-> IF container.exists THEN container.exitCode ELSE NoCode]

\* The stream callback over every line of the output (each event of the
\* stream ends with a newline, so the final buffer is empty and its awaited
\* append does not run): the rate-limit check, and the text fragments handed
\* to appendJobOutput without await.
WatchStream(j) ==
    /\ watch[j].pc = "stream"
    /\ streamContainerLogs.ended
    /\ LET lines == streamContainerLogs.lines
       IN  watch' = [watch EXCEPT ![j] =
               [@ EXCEPT !.pc = "getJob", !.exitCode = streamContainerLogs.exitCode,
                         !.rateLimit = RateLimitSeen(lines), !.lines = lines,
                         !.pending = extractTextFromStream(lines)]]
    /\ UNCHANGED <<storeVars, container, start, handlerVars, notified, workspace, call>>

\* One appendJobOutput started by the stream callback completes: getJob, then
\* appendFile.  The calls were not awaited, so they complete in any order.
WatchAppend(j, i) ==
    /\ i \in 1..Len(watch[j].pending)
    /\ watch' = [watch EXCEPT ![j].pending =
                    SubSeq(@, 1, i - 1) \o SubSeq(@, i + 1, Len(@))]
    /\ log' = IF job[j].status # "absent"
              THEN [log EXCEPT ![j] = Append(@, watch[j].pending[i])]
              ELSE log
    /\ UNCHANGED <<session, jobsDir, job, container, start, handlerVars, notified, workspace, call>>

\* getJob after the stream ended: a job that is not running was handled.
WatchGetJob(j) ==
    /\ watch[j].pc = "getJob"
    /\ watch' = [watch EXCEPT ![j].pc =
                    IF job[j].status = "running" THEN "updRead" ELSE "done"]
    /\ UNCHANGED <<storeVars, container, start, handlerVars, notified, workspace, call>>

\* updateJob(terminal), first half: getJob.
WatchUpdRead(j) ==
    /\ watch[j].pc = "updRead"
    /\ watch' = [watch EXCEPT ![j] =
          IF job[j].status = "absent" THEN [@ EXCEPT !.pc = "done"]
          ELSE [@ EXCEPT !.pc = "updWrite", !.copy = job[j]]]
    /\ UNCHANGED <<storeVars, container, start, handlerVars, notified, workspace, call>>

\* updateJob(terminal) of the watcher: `updated`, the record written to the
\* temp file.
updatedByWatcher(j) ==
    LET c == WatcherClassify(watch[j].rateLimit, watch[j].exitCode)
    IN  Merge(watch[j].copy,
              [status |-> c.status, completedAt |-> "watcher",
               exitCode |-> watch[j].exitCode,
               errorType |-> c.errorType,
               errorMessage |-> c.errorMessage],
              {"status", "completedAt", "exitCode", "errorType", "errorMessage"})

\* updateJob(terminal), second half: temp file and rename.
WatchUpdWrite(j) ==
    /\ watch[j].pc = "updWrite"
    /\ IF jobsDir
       THEN /\ job' = [job EXCEPT ![j] = updatedByWatcher(j)]
            /\ watch' = [watch EXCEPT ![j].pc = "clear", ![j].copy = NoJob]
       ELSE /\ job' = job
            /\ watch' = [watch EXCEPT ![j].pc = "done", ![j].copy = NoJob]
    /\ UNCHANGED <<session, jobsDir, log, container, start, handlerVars, notified, workspace, call>>

\* setActiveJob(null); "Session not found" ends the watcher in its catch.
WatchClear(j) ==
    /\ watch[j].pc = "clear"
    /\ IF session.exists
       THEN /\ session' = SetActiveJobRecord(session, NoCode)
            /\ watch' = [watch EXCEPT ![j].pc = "notify"]
       ELSE /\ session' = session
            /\ watch' = [watch EXCEPT ![j].pc = "done"]
    /\ UNCHANGED <<jobsDir, job, log, container, start, handlerVars, notified, workspace, call>>

\* sendCompletionNotification (a webhook token is configured).
WatchNotify(j) ==
    /\ watch[j].pc = "notify"
    /\ notified' = [notified EXCEPT ![j] = @ + 1]
    /\ watch' = [watch EXCEPT ![j].pc = "done"]
    /\ UNCHANGED <<storeVars, container, start, handlerVars, workspace, call>>

(***************************************************************************)
(* claude_code_cancel                                                      *)
(***************************************************************************)
\* result: what the last call returned ("none" before the first return).
IdleCancel == [pc |-> "idle", job |-> NoCode, copy |-> NoJob, result |-> "none"]

\* A claude_code_cancel that goes on whatever status it has read.
CancelCallAnyStatus(j) ==
    /\ cancel.pc = "idle"
    /\ start[j].pc = "done"
    /\ calls < limits.calls
    /\ calls' = calls + 1
    /\ job[j].status # "absent"
    /\ cancel' = [IdleCancel EXCEPT !.pc = "kill", !.job = j]
    /\ UNCHANGED <<storeVars, container, start, watch, status, recover, cleanup, notified, limits,
                   workspace, call>>

\* findJob and the status check.  The caller names the job by the id that
\* claude_code_start returned.  A job that is not found throws before any
\* state is touched.
CancelCall(j) ==
    /\ cancel.pc = "idle"
    /\ start[j].pc = "done"
    /\ calls < limits.calls
    /\ calls' = calls + 1
    /\ job[j].status # "absent"
    /\ cancel' = IF job[j].status \in Active
                 THEN [IdleCancel EXCEPT !.pc = "kill", !.job = j]
                 ELSE [IdleCancel EXCEPT !.result = "cannot cancel"]
    /\ UNCHANGED <<storeVars, container, start, watch, status, recover, cleanup, notified, limits,
                   workspace, call>>

\* killContainer(sessionKey).
CancelKill ==
    /\ cancel.pc = "kill"
    /\ killContainer
    /\ cancel' = [cancel EXCEPT !.pc = "updRead"]
    /\ UNCHANGED <<storeVars, start, watch, status, recover, cleanup, notified, calls, limits,
                   workspace, call>>

\* updateJob(cancelled), first half: getJob.
CancelUpdRead ==
    /\ cancel.pc = "updRead"
    /\ cancel' = IF job[cancel.job].status = "absent"
                 THEN [IdleCancel EXCEPT !.result = "Job not found"]
                 ELSE [cancel EXCEPT !.pc = "updWrite", !.copy = job[cancel.job]]
    /\ UNCHANGED <<storeVars, container, start, watch, status, recover, cleanup, notified, calls, limits,
                   workspace, call>>

\* updateJob(cancelled): `updated`, the record written to the temp file.
updatedByCancel ==
    Merge(cancel.copy, [status |-> "cancelled", completedAt |-> "cancel"],
          {"status", "completedAt"})

\* A write in place that is interrupted after the first field: the file holds
\* the new status and the old completedAt.
CancelUpdWriteInPlace ==
    /\ cancel.pc = "updWrite"
    /\ IF jobsDir
       THEN /\ job' = [job EXCEPT ![cancel.job] =
                    Merge(cancel.copy, [status |-> "cancelled"], {"status"})]
            /\ cancel' = [cancel EXCEPT !.pc = "notify", !.copy = NoJob]
       ELSE /\ job' = job
            /\ cancel' = [IdleCancel EXCEPT !.result = "ENOENT"]
    /\ UNCHANGED <<session, jobsDir, log, container, start, watch, status, recover,
                   cleanup, notified, calls, limits, workspace, call>>

\* updateJob(cancelled), second half: temp file and rename.
CancelUpdWrite ==
    /\ cancel.pc = "updWrite"
    /\ IF jobsDir
       THEN /\ job' = [job EXCEPT ![cancel.job] = updatedByCancel]
            /\ cancel' = [cancel EXCEPT !.pc = "notify", !.copy = NoJob]
       ELSE /\ job' = job
            /\ cancel' = [IdleCancel EXCEPT !.result = "ENOENT"]
    /\ UNCHANGED <<session, jobsDir, log, container, start, watch, status, recover,
                   cleanup, notified, calls, limits, workspace, call>>

\* sendCompletionNotification (a webhook token is configured).
CancelNotify ==
    /\ cancel.pc = "notify"
    /\ notified' = [notified EXCEPT ![cancel.job] = @ + 1]
    /\ cancel' = [cancel EXCEPT !.pc = "clear"]
    /\ UNCHANGED <<storeVars, container, start, watch, status, recover, cleanup, calls, limits,
                   workspace, call>>

\* setActiveJob(null), then the return.
CancelClear ==
    /\ cancel.pc = "clear"
    /\ IF session.exists
       THEN /\ session' = SetActiveJobRecord(session, NoCode)
            /\ cancel' = [IdleCancel EXCEPT !.result = "cancelled"]
       ELSE /\ session' = session
            /\ cancel' = [IdleCancel EXCEPT !.result = "Session not found"]
    /\ UNCHANGED <<jobsDir, job, log, container, start, watch, status, recover,
                   cleanup, notified, calls, limits, workspace, call>>

(***************************************************************************)
(* claude_code_status                                                      *)
(***************************************************************************)
NoStatus == [exists |-> FALSE, running |-> FALSE, exitCode |-> NoCode]
IdleStatus == [pc |-> "idle", job |-> NoCode, copy |-> NoJob, cs |-> NoStatus]

\* getContainerStatus: null when podman inspect fails; a running container
\* reports exit code 0.
getContainerStatus ==
    IF container.exists
    THEN [exists |-> TRUE, running |-> container.running, exitCode |-> container.exitCode]
    ELSE NoStatus

\* The terminal record of the Status path and of the recovery, from the exit
\* code the runtime reports (NoCode when there is no status).
InspectClassify(exitCode) ==
    [status |-> IF exitCode = 0 THEN "completed" ELSE "failed",
     errorType |-> IF exitCode = OomExitCode THEN "oom"
                   ELSE IF exitCode # 0 THEN "crash" ELSE "null"]

\* findJob, by the id that claude_code_start returned; only a job read as
\* running is checked against its container.
StatusCall(j) ==
    /\ status.pc = "idle"
    /\ start[j].pc = "done"
    /\ calls < limits.calls
    /\ calls' = calls + 1
    /\ job[j].status # "absent"
    /\ status' = IF job[j].status = "running"
                 THEN [IdleStatus EXCEPT !.pc = "inspect", !.job = j]
                 ELSE IdleStatus
    /\ UNCHANGED <<storeVars, container, start, watch, cancel, recover, cleanup, notified, limits,
                   workspace, call>>

\* getContainerStatus(job.containerName).
StatusInspect ==
    /\ status.pc = "inspect"
    /\ LET cs == getContainerStatus
       IN  status' = IF ~cs.exists
                     THEN IdleStatus
                     ELSE [status EXCEPT !.cs = cs,
                                         !.pc = IF cs.running THEN "stats" ELSE "logs"]
    /\ UNCHANGED <<storeVars, container, start, watch, cancel, recover, cleanup, notified, calls, limits,
                   workspace, call>>

\* getContainerLogs, extractTextFromStream and appendJobOutput of the text.
StatusLogs ==
    /\ status.pc = "logs"
    /\ LET text == IF container.exists THEN extractTextFromStream(container.lines)
                   ELSE <<>>
       IN  IF text = <<>>
           THEN /\ log' = log
                /\ status' = [status EXCEPT !.pc = "updRead"]
           ELSE IF job[status.job].status = "absent"
           THEN /\ log' = log
                /\ status' = IdleStatus
           ELSE /\ log' = [log EXCEPT ![status.job] = @ \o text]
                /\ status' = [status EXCEPT !.pc = "updRead"]
    /\ UNCHANGED <<session, jobsDir, job, container, start, watch, cancel, recover,
                   cleanup, notified, calls, limits, workspace, call>>

\* updateJob(terminal), first half: getJob.
StatusUpdRead ==
    /\ status.pc = "updRead"
    /\ status' = IF job[status.job].status = "absent"
                 THEN IdleStatus
                 ELSE [status EXCEPT !.pc = "updWrite", !.copy = job[status.job]]
    /\ UNCHANGED <<storeVars, container, start, watch, cancel, recover, cleanup, notified, calls, limits,
                   workspace, call>>

\* updateJob(terminal) of claude_code_status: `updated`, the record written
\* to the temp file.
updatedByStatus ==
    LET c == InspectClassify(status.cs.exitCode)
    IN  Merge(status.copy,
              [status |-> c.status, completedAt |-> "finishedAt",
               exitCode |-> status.cs.exitCode, errorType |-> c.errorType],
              {"status", "completedAt", "exitCode", "errorType"})

\* updateJob(terminal), second half: temp file and rename.
StatusUpdWrite ==
    /\ status.pc = "updWrite"
    /\ IF jobsDir
       THEN /\ job' = [job EXCEPT ![status.job] = updatedByStatus]
            /\ status' = [status EXCEPT !.pc = "clear", !.copy = NoJob]
       ELSE /\ job' = job
            /\ status' = IdleStatus
    /\ UNCHANGED <<session, jobsDir, log, container, start, watch, cancel, recover,
                   cleanup, notified, calls, limits, workspace, call>>

\* setActiveJob(null).
StatusClear ==
    /\ status.pc = "clear"
    /\ IF session.exists
       THEN /\ session' = SetActiveJobRecord(session, NoCode)
            /\ status' = [status EXCEPT !.pc = "kill"]
       ELSE /\ session' = session
            /\ status' = IdleStatus
    /\ UNCHANGED <<jobsDir, job, log, container, start, watch, cancel, recover,
                   cleanup, notified, calls, limits, workspace, call>>

\* killContainer(sessionKey), then the report of the record just written.
StatusKill ==
    /\ status.pc = "kill"
    /\ killContainer
    /\ status' = IdleStatus
    /\ UNCHANGED <<storeVars, start, watch, cancel, recover, cleanup, notified, calls, limits,
                   workspace, call>>

\* getContainerStats: metrics, or undefined when podman stats fails.
StatusStats(ok) ==
    /\ status.pc = "stats"
    /\ status' = IF ok /\ container.exists /\ container.running
                 THEN [status EXCEPT !.pc = "metricsRead"]
                 ELSE IdleStatus
    /\ UNCHANGED <<storeVars, container, start, watch, cancel, recover, cleanup, notified, calls, limits,
                   workspace, call>>

\* updateJob({metrics}), first half: getJob.
StatusMetricsRead ==
    /\ status.pc = "metricsRead"
    /\ status' = IF job[status.job].status = "absent"
                 THEN IdleStatus
                 ELSE [status EXCEPT !.pc = "metricsWrite", !.copy = job[status.job]]
    /\ UNCHANGED <<storeVars, container, start, watch, cancel, recover, cleanup, notified, calls, limits,
                   workspace, call>>

\* updateJob({metrics}): `updated`, the record read with the new metrics.
updatedByMetrics == Merge(status.copy, [metrics |-> "set"], {"metrics"})

\* updateJob({metrics}), second half: temp file and rename.
StatusMetricsWrite ==
    /\ status.pc = "metricsWrite"
    /\ IF jobsDir
       THEN /\ job' = [job EXCEPT ![status.job] = updatedByMetrics]
            /\ status' = IdleStatus
       ELSE /\ job' = job
            /\ status' = IdleStatus
    /\ UNCHANGED <<session, jobsDir, log, container, start, watch, cancel, recover,
                   cleanup, notified, calls, limits, workspace, call>>

(***************************************************************************)
(* recoverOrphanedJobs: started once by register(), not awaited.  Any      *)
(* error ends it in its catch.                                             *)
(***************************************************************************)
DoneRecover == [pc |-> "done", listed |-> NoStatus, matched |-> NoCode,
                job |-> NoCode, cs |-> NoStatus, copy |-> NoJob]

\* The recovery has ended after it wrote the terminal record of job j (the
\* job is kept for the properties).
RecoveredJob(j) == [DoneRecover EXCEPT !.job = j]

\* listContainersByPrefix("claude-"): the containers and whether each runs.
\* (The exit code is not part of the listing. The active job of the session
\* at the listing of a running container is kept for the properties.)
RecoverList ==
    /\ recover.pc = "list"
    /\ recover' = IF container.exists
                  THEN [recover EXCEPT !.pc = "getActive",
                                       !.listed = [getContainerStatus EXCEPT
                                                      !.exitCode = NoCode],
                                       !.matched = IF container.running
                                                   THEN getActiveJobId ELSE NoCode]
                  ELSE DoneRecover
    /\ UNCHANGED <<storeVars, container, start, watch, cancel, status, cleanup, notified, calls, limits,
                   workspace, call>>

\* getActiveJob(sessionKey) and the comparison of its containerName with the
\* listed name.
RecoverGetActive ==
    /\ recover.pc = "getActive"
    /\ recover' = IF getActiveJobId = NoCode
                  THEN [recover EXCEPT !.pc = "orphanKill"]
                  ELSE IF recover.listed.running
                  THEN DoneRecover
                  ELSE [recover EXCEPT !.pc = "logs", !.job = getActiveJobId]
    /\ UNCHANGED <<storeVars, container, start, watch, cancel, status, cleanup, notified, calls, limits,
                   workspace, call>>

\* getContainerStatus, getContainerLogs, extractTextFromStream and
\* appendJobOutput of the text.
RecoverLogs ==
    /\ recover.pc = "logs"
    /\ LET text == IF container.exists THEN extractTextFromStream(container.lines)
                   ELSE <<>>
       IN  IF text = <<>>
           THEN /\ log' = log
                /\ recover' = [recover EXCEPT !.pc = "updRead", !.cs = getContainerStatus]
           ELSE IF job[recover.job].status = "absent"
           THEN /\ log' = log
                /\ recover' = DoneRecover
           ELSE /\ log' = [log EXCEPT ![recover.job] = @ \o text]
                /\ recover' = [recover EXCEPT !.pc = "updRead", !.cs = getContainerStatus]
    /\ UNCHANGED <<session, jobsDir, job, container, start, watch, cancel, status,
                   cleanup, notified, calls, limits, workspace, call>>

\* updateJob(terminal), first half: getJob.
RecoverUpdRead ==
    /\ recover.pc = "updRead"
    /\ recover' = IF job[recover.job].status = "absent"
                  THEN DoneRecover
                  ELSE [recover EXCEPT !.pc = "updWrite", !.copy = job[recover.job]]
    /\ UNCHANGED <<storeVars, container, start, watch, cancel, status, cleanup, notified, calls, limits,
                   workspace, call>>

\* updateJob(terminal) of the recovery: `updated`, the record written to the
\* temp file.
updatedByRecovery ==
    LET c == InspectClassify(recover.cs.exitCode)
    IN  Merge(recover.copy,
              [status |-> c.status,
               completedAt |-> IF recover.cs.exists THEN "finishedAt" ELSE "now",
               exitCode |-> recover.cs.exitCode, errorType |-> c.errorType],
              {"status", "completedAt", "exitCode", "errorType"})

\* updateJob(terminal), second half: temp file and rename.
RecoverUpdWrite ==
    /\ recover.pc = "updWrite"
    /\ IF jobsDir
       THEN /\ job' = [job EXCEPT ![recover.job] = updatedByRecovery]
            /\ recover' = [recover EXCEPT !.pc = "clear", !.copy = NoJob]
       ELSE /\ job' = job
            /\ recover' = DoneRecover
    /\ UNCHANGED <<session, jobsDir, log, container, start, watch, cancel, status,
                   cleanup, notified, calls, limits, workspace, call>>

\* setActiveJob(null).
RecoverClear ==
    /\ recover.pc = "clear"
    /\ IF session.exists
       THEN /\ session' = SetActiveJobRecord(session, NoCode)
            /\ recover' = [recover EXCEPT !.pc = "kill"]
       ELSE /\ session' = session
            /\ recover' = RecoveredJob(recover.job)
    /\ UNCHANGED <<jobsDir, job, log, container, start, watch, cancel, status,
                   cleanup, notified, calls, limits, workspace, call>>

\* killContainer(sessionKey) after the terminal record.
RecoverKill ==
    /\ recover.pc = "kill"
    /\ killContainer
    /\ recover' = RecoveredJob(recover.job)
    /\ UNCHANGED <<storeVars, start, watch, cancel, status, cleanup, notified, calls, limits,
                   workspace, call>>

\* killContainer(sessionKey) of a container with no matching active job.
RecoverOrphanKill ==
    /\ recover.pc = "orphanKill"
    /\ killContainer
    /\ recover' = DoneRecover
    /\ UNCHANGED <<storeVars, start, watch, cancel, status, cleanup, notified, calls, limits,
                   workspace, call>>

(***************************************************************************)
(* claude_code_cleanup and the passing of time                             *)
(***************************************************************************)

\* claude_code_cleanup declares no parameters and its execute() reads none:
\* whatever the caller passes as delete_workspaces is dropped.
\* cleanupIdleSessions: listSessions and the cutoff test on lastActivity.
CleanupList(delete_workspaces) ==
    /\ limits.cleanup
    /\ cleanup = "idle"
    /\ session.exists /\ session.idle
    /\ cleanup' = "delete"
    /\ UNCHANGED <<storeVars, container, start, watch, cancel, status, recover, notified, calls, limits,
                   workspace, call>>

\* A cleanup that removes the workspace directory with the session directory.
CleanupDeleteWithWorkspace ==
    /\ cleanup = "delete"
    /\ session' = NoSession
    /\ jobsDir' = FALSE
    /\ job' = [j \in Jobs |-> NoJob]
    /\ log' = [j \in Jobs |-> <<>>]
    /\ cleanup' = "idle"
    /\ workspace' = FALSE
    /\ UNCHANGED <<container, start, watch, cancel, status, recover, notified, calls, limits, call>>

\* deleteSession: rm -rf of the session directory, jobs and logs included;
\* the workspace directory lies outside it and deleteWorkspace is not called.
CleanupDelete ==
    /\ cleanup = "delete"
    /\ session' = NoSession
    /\ jobsDir' = FALSE
    /\ job' = [j \in Jobs |-> NoJob]
    /\ log' = [j \in Jobs |-> <<>>]
    /\ cleanup' = "idle"
    /\ UNCHANGED <<container, start, watch, cancel, status, recover, notified, calls, limits,
                   workspace, call>>

\* More than idleTimeout seconds pass since lastActivity.
BecomeIdle ==
    /\ limits.cleanup
    /\ session.exists /\ ~session.idle
    /\ session' = [session EXCEPT !.idle = TRUE]
    /\ UNCHANGED <<jobsDir, job, log, container, start, watch, handlerVars, notified, workspace, call>>

(***************************************************************************)
(* The plugin is registered on an empty store, or on the store and the     *)
(* container a previous run left: a job that was running when the plugin   *)
(* stopped (its watcher is gone), or a finished job whose stopped container*)
(* was never removed.                                                      *)
(***************************************************************************)
LeftRunningJob == [NoJob EXCEPT !.status = "running"]

\* The runs explored: how many claude_code_start calls, how many cancel and
\* status calls, whether time passes and claude_code_cleanup is called, and
\* whether the containers produce every exit code and transcript.
Scenarios ==
    { [starts |-> MaxJobs, calls |-> 0, cleanup |-> TRUE, rich |-> FALSE],
      [starts |-> MaxJobs - 1, calls |-> MaxCalls, cleanup |-> TRUE, rich |-> FALSE],
      [starts |-> MaxJobs - 1, calls |-> MaxCalls, cleanup |-> FALSE, rich |-> TRUE] }

\* No function is called on its own.
NoCall == [fn |-> "none"]

InitProcesses ==
    /\ limits \in Scenarios
    /\ call = NoCall
    /\ watch = [j \in Jobs |-> IdleWatch]
    /\ cancel = IdleCancel
    /\ status = IdleStatus
    /\ recover = [DoneRecover EXCEPT !.pc = "list"]
    /\ cleanup = "idle"
    /\ notified = [j \in Jobs |-> 0]
    /\ log = [j \in Jobs |-> <<>>]
    /\ calls = 0

\* The call that allocated job 1 returned during the previous run.
LeftStart == [j \in StartCalls |-> IF j = 1 THEN [IdleStart EXCEPT !.pc = "done"]
                                  ELSE IdleStart]

InitEmpty ==
    /\ start = [j \in StartCalls |-> IdleStart]
    /\ session = NoSession
    /\ jobsDir = FALSE
    /\ job = [j \in Jobs |-> NoJob]
    /\ container = NoContainer
    /\ workspace = FALSE

InitLeftRunning ==
    /\ start = LeftStart
    /\ session = [FreshSession EXCEPT !.activeJobId = 1]
    /\ jobsDir = TRUE
    /\ workspace = TRUE
    /\ job = [j \in Jobs |-> IF j = 1 THEN LeftRunningJob ELSE NoJob]
    /\ \E running \in BOOLEAN, code \in CodesOf(limits.rich),
          lines \in TranscriptsOf(limits.rich) :
          /\ running => code = 0
          /\ container = [exists |-> TRUE, running |-> running, exitCode |-> code,
                          lines |-> lines, owner |-> 1]

InitLeftFinished ==
    /\ start = LeftStart
    /\ session = FreshSession
    /\ jobsDir = TRUE
    /\ workspace = TRUE
    /\ \E code \in CodesOf(limits.rich) :
          /\ job = [j \in Jobs |-> IF j = 1
                       THEN Merge(LeftRunningJob,
                                  [status |-> WatcherClassify(FALSE, code).status,
                                   completedAt |-> "watcher", exitCode |-> code,
                                   errorType |-> WatcherClassify(FALSE, code).errorType],
                                  {"status", "completedAt", "exitCode", "errorType"})
                       ELSE NoJob]
          /\ container = [exists |-> TRUE, running |-> FALSE, exitCode |-> code,
                          lines |-> <<>>, owner |-> 1]

Init == InitProcesses /\ (InitEmpty \/ InitLeftRunning \/ InitLeftFinished)

Next ==
    \/ \E j \in StartCalls :
          \/ \E promptOk, authOk, imageOk \in BOOLEAN : StartCall(j, promptOk, authOk, imageOk)
          \/ StartGetSession(j)
          \/ StartCreateSession(j)
          \/ StartCheckActive(j)
          \/ StartCreateJob(j)
          \/ StartKill(j)
          \/ \E ok \in BOOLEAN, lines \in TranscriptsOf(limits.rich) : StartRun(j, ok, lines)
          \/ StartRunningRead(j)
          \/ StartRunningWrite(j)
          \/ StartSetActive(j)
          \/ StartFailedRead(j)
          \/ StartFailedWrite(j)
    \/ \E code \in CodesOf(limits.rich) : ContainerExit(code)
    \/ \E j \in Jobs :
          \/ WatchStream(j)
          \/ \E i \in 1..Len(watch[j].pending) : WatchAppend(j, i)
          \/ WatchGetJob(j)
          \/ WatchUpdRead(j)
          \/ WatchUpdWrite(j)
          \/ WatchClear(j)
          \/ WatchNotify(j)
    \/ \E j \in Jobs : CancelCall(j)
    \/ CancelKill \/ CancelUpdRead \/ CancelUpdWrite \/ CancelNotify \/ CancelClear
    \/ \E j \in Jobs : StatusCall(j)
    \/ StatusInspect \/ StatusLogs \/ StatusUpdRead \/ StatusUpdWrite \/ StatusClear
    \/ StatusKill
    \/ \E ok \in BOOLEAN : StatusStats(ok)
    \/ StatusMetricsRead \/ StatusMetricsWrite
    \/ RecoverList \/ RecoverGetActive \/ RecoverLogs \/ RecoverUpdRead
    \/ RecoverUpdWrite \/ RecoverClear \/ RecoverKill \/ RecoverOrphanKill
    \/ \E delete_workspaces \in BOOLEAN : CleanupList(delete_workspaces)
    \/ CleanupDelete
    \/ BecomeIdle

Spec == Init /\ [][Next]_vars

(***************************************************************************)
(* The watcher of one running job alone, over outputs of up to             *)
(* MaxFragments text deltas: the state after claude_code_start returned.   *)
(***************************************************************************)
RECURSIVE SeqsUpTo(_, _)
SeqsUpTo(S, n) ==
    IF n = 0 THEN {<<>>}
    ELSE LET shorter == SeqsUpTo(S, n - 1)
         IN  shorter \cup {Append(q, x) : q \in shorter, x \in S}

StreamTranscripts == SeqsUpTo({TextLine, TextLineB}, MaxFragments)

InitStreaming ==
    /\ limits = [starts |-> MaxJobs - 1, calls |-> MaxCalls, cleanup |-> FALSE,
                 rich |-> TRUE]
    /\ call = NoCall
    /\ start = LeftStart
    /\ session = [FreshSession EXCEPT !.activeJobId = 1]
    /\ jobsDir = TRUE
    /\ workspace = TRUE
    /\ job = [j \in Jobs |-> IF j = 1 THEN LeftRunningJob ELSE NoJob]
    /\ log = [j \in Jobs |-> <<>>]
    /\ watch = [j \in Jobs |-> IF j = 1 THEN [IdleWatch EXCEPT !.pc = "stream"]
                                ELSE IdleWatch]
    /\ cancel = IdleCancel
    /\ status = IdleStatus
    /\ recover = DoneRecover
    /\ cleanup = "idle"
    /\ notified = [j \in Jobs |-> 0]
    /\ calls = 0
    /\ \E lines \in StreamTranscripts :
          container = [exists |-> TRUE, running |-> TRUE, exitCode |-> 0,
                       lines |-> lines, owner |-> 1]

\* A call of the store made by the watcher throws (an I/O error of getJob,
\* updateJob or setActiveJob): the catch of the watcher logs the message and
\* the watcher ends.
WatchThrow(j) ==
    /\ watch[j].pc \in {"getJob", "updRead", "updWrite", "clear"}
    /\ watch' = [watch EXCEPT ![j].pc = "threw", ![j].copy = NoJob]
    /\ UNCHANGED <<storeVars, container, start, handlerVars, notified, workspace, call>>

NextStreaming ==
    \/ \E code \in ExitCodes : ContainerExit(code)
    \/ \E j \in Jobs :
          \/ WatchStream(j)
          \/ \E i \in 1..Len(watch[j].pending) : WatchAppend(j, i)
          \/ WatchGetJob(j)
          \/ WatchUpdRead(j)
          \/ WatchUpdWrite(j)
          \/ WatchClear(j)
          \/ WatchNotify(j)
          \/ WatchThrow(j)

SpecStreaming == InitStreaming /\ [][NextStreaming]_vars

(***************************************************************************)
(* A session whose first job is running under its watcher, a second        *)
(* claude_code_start on the same session, and one claude_code_cancel or    *)
(* claude_code_status call: the state after the first claude_code_start    *)
(* returned, with the recovery finished and no clean-up.                   *)
(***************************************************************************)
InitSecondJob ==
    /\ limits = [starts |-> MaxJobs, calls |-> MaxCalls - 1, cleanup |-> FALSE,
                 rich |-> FALSE]
    /\ call = NoCall
    /\ start = LeftStart
    /\ session = [FreshSession EXCEPT !.activeJobId = 1]
    /\ jobsDir = TRUE
    /\ workspace = TRUE
    /\ job = [j \in Jobs |-> IF j = 1 THEN LeftRunningJob ELSE NoJob]
    /\ log = [j \in Jobs |-> <<>>]
    /\ watch = [j \in Jobs |-> IF j = 1 THEN [IdleWatch EXCEPT !.pc = "stream"]
                                ELSE IdleWatch]
    /\ cancel = IdleCancel
    /\ status = IdleStatus
    /\ recover = DoneRecover
    /\ cleanup = "idle"
    /\ notified = [j \in Jobs |-> 0]
    /\ calls = 0
    /\ container = [exists |-> TRUE, running |-> TRUE, exitCode |-> 0,
                    lines |-> <<>>, owner |-> 1]

NextSecondJob ==
    \/ \E j \in StartCalls :
          \/ \E promptOk, authOk, imageOk \in BOOLEAN : StartCall(j, promptOk, authOk, imageOk)
          \/ StartGetSession(j)
          \/ StartCheckActive(j)
          \/ StartCreateJob(j)
          \/ StartKill(j)
          \/ \E ok \in BOOLEAN, lines \in TranscriptsOf(limits.rich) : StartRun(j, ok, lines)
          \/ StartRunningRead(j)
          \/ StartRunningWrite(j)
          \/ StartSetActive(j)
          \/ StartFailedRead(j)
          \/ StartFailedWrite(j)
    \/ \E code \in CodesOf(limits.rich) : ContainerExit(code)
    \/ \E j \in Jobs :
          \/ WatchStream(j)
          \/ WatchGetJob(j)
          \/ WatchUpdRead(j)
          \/ WatchUpdWrite(j)
          \/ WatchClear(j)
          \/ WatchNotify(j)
    \/ \E j \in Jobs : CancelCall(j)
    \/ CancelKill \/ CancelUpdRead \/ CancelUpdWrite \/ CancelNotify \/ CancelClear
    \/ \E j \in Jobs : StatusCall(j)
    \/ StatusInspect \/ StatusLogs \/ StatusUpdRead \/ StatusUpdWrite \/ StatusClear
    \/ StatusKill
    \/ \E ok \in BOOLEAN : StatusStats(ok)
    \/ StatusMetricsRead \/ StatusMetricsWrite

SpecSecondJob == InitSecondJob /\ [][NextSecondJob]_vars

(***************************************************************************)
(* Functions of the store, the parser and the runner called on their own,  *)
(* on an idle plugin: the arguments are drawn in the initial state and one *)
(* step returns the result.                                                *)
(***************************************************************************)
programVars == <<session, jobsDir, job, log, container, start, watch, cancel, status,
                 recover, cleanup, notified, calls, limits, workspace>>

InitIdlePlugin ==
    /\ limits = [starts |-> MaxJobs, calls |-> 0, cleanup |-> TRUE, rich |-> FALSE]
    /\ watch = [j \in Jobs |-> IdleWatch]
    /\ cancel = IdleCancel
    /\ status = IdleStatus
    /\ recover = DoneRecover
    /\ cleanup = "idle"
    /\ notified = [j \in Jobs |-> 0]
    /\ log = [j \in Jobs |-> <<>>]
    /\ calls = 0
    /\ InitEmpty

Min(a, b) == IF a <= b THEN a ELSE b

\* fs.appendFile(outputFile, content): the UTF-8 bytes of the characters.  The
\* characters of the model: one of one byte, one of two bytes, and U+FFFD.
RECURSIVE utf8Encode(_)
utf8Encode(chars) ==
    IF chars = <<>> THEN <<>>
    ELSE (CASE Head(chars) = "a" -> <<"0x61">>
            [] Head(chars) = "e-acute" -> <<"0xC3", "0xA9">>
            [] OTHER -> <<"0xEF", "0xBF", "0xBD">>)
         \o utf8Encode(Tail(chars))

\* buffer.toString("utf-8", 0, bytesRead): a lead byte without its
\* continuation byte and a continuation byte without its lead byte each
\* decode to U+FFFD.
RECURSIVE utf8Decode(_)
utf8Decode(bytes) ==
    IF bytes = <<>> THEN <<>>
    ELSE IF Head(bytes) = "0x61" THEN <<"a">> \o utf8Decode(Tail(bytes))
    ELSE IF Head(bytes) = "0xC3" /\ Len(bytes) >= 2 /\ bytes[2] = "0xA9"
    THEN <<"e-acute">> \o utf8Decode(Tail(Tail(bytes)))
    ELSE <<"U+FFFD">> \o utf8Decode(Tail(bytes))

\* readJobOutput on an existing output file of the given bytes.
readJobOutput(file, offset, limit) ==
    LET totalSize == Len(file)
    IN  IF offset >= totalSize
        THEN [content |-> <<>>, size |-> 0, totalSize |-> totalSize, hasMore |-> FALSE]
        ELSE LET bytesRead == Min(limit, totalSize - offset)
                 buffer == SubSeq(file, offset + 1, offset + bytesRead)
             IN  [content |-> utf8Decode(buffer), size |-> bytesRead,
                  totalSize |-> totalSize, hasMore |-> offset + bytesRead < totalSize]

\* The output files: what appendJobOutput wrote for texts of up to MaxChars
\* characters.
OutputFiles == {utf8Encode(text) : text \in SeqsUpTo({"a", "e-acute"}, MaxChars)}

InitReadOutput ==
    /\ InitIdlePlugin
    /\ \E file \in OutputFiles, offset \in 0..MaxOffset, limit \in 0..MaxLimit :
          call = [fn |-> "readJobOutput", file |-> file, offset |-> offset,
                  limit |-> limit, returned |-> FALSE,
                  result |-> readJobOutput(<<>>, 0, 0)]

ReadJobOutputReturn ==
    /\ call.fn = "readJobOutput" /\ ~call.returned
    /\ call' = [call EXCEPT !.returned = TRUE,
                            !.result = readJobOutput(call.file, call.offset, call.limit)]
    /\ UNCHANGED programVars

SpecReadOutput == InitReadOutput /\ [][ReadJobOutputReturn]_vars

(***************************************************************************)
(* PodmanRunner.containerNameFromSessionKey and sessionKeyFromContainerName*)
(* Strings are sequences of characters; "a", "Z", "7" and "-" stand for    *)
(* the classes a-z, A-Z, 0-9 and the hyphen, "_" and "." for the rest.     *)
(***************************************************************************)
ClaudePrefix == <<"c", "l", "a", "u", "d", "e", "-">>
PrefixLength == 7
NameChars == {"a", "Z", "7", "-"}
KeyChars == NameChars \cup {"_", "."}

\* containerName.startsWith("claude-")
startsWith(str, prefix) ==
    Len(str) >= Len(prefix) /\ SubSeq(str, 1, Len(prefix)) = prefix

\* `claude-${sessionKey.replace(/[^a-zA-Z0-9-]/g, "-")}`
containerNameFromSessionKey(sessionKey) ==
    ClaudePrefix \o [i \in 1..Len(sessionKey) |->
                        IF sessionKey[i] \in NameChars THEN sessionKey[i] ELSE "-"]

\* A helper that cuts one character too few.
sessionKeyFromContainerNameShort(containerName) ==
    IF ~startsWith(containerName, ClaudePrefix)
    THEN [null |-> TRUE, value |-> <<>>]
    ELSE [null |-> FALSE,
          value |-> SubSeq(containerName, PrefixLength, Len(containerName))]

\* null, or containerName.slice(7).
sessionKeyFromContainerName(containerName) ==
    IF ~startsWith(containerName, ClaudePrefix)
    THEN [null |-> TRUE, value |-> <<>>]
    ELSE [null |-> FALSE,
          value |-> SubSeq(containerName, PrefixLength + 1, Len(containerName))]

\* The strings given to sessionKeyFromContainerName: with the prefix, with the
\* prefix less its hyphen, and without it.
Keys == SeqsUpTo(KeyChars, MaxKeyLen)
ContainerNames ==
    {ClaudePrefix \o k : k \in Keys}
    \cup {SubSeq(ClaudePrefix, 1, PrefixLength - 1) \o k : k \in Keys}
    \cup Keys

InitContainerName ==
    /\ InitIdlePlugin
    /\ \E name \in ContainerNames :
          call = [fn |-> "sessionKeyFromContainerName", name |-> name, pc |-> "key",
                  key |-> [null |-> TRUE, value |-> <<>>], back |-> <<>>]

SessionKeyReturn ==
    /\ call.fn = "sessionKeyFromContainerName" /\ call.pc = "key"
    /\ LET key == sessionKeyFromContainerName(call.name)
       IN  call' = [call EXCEPT !.key = key,
                                !.pc = IF key.null THEN "done" ELSE "name"]
    /\ UNCHANGED programVars

ContainerNameReturn ==
    /\ call.fn = "sessionKeyFromContainerName" /\ call.pc = "name"
    /\ call' = [call EXCEPT !.back = containerNameFromSessionKey(call.key.value),
                            !.pc = "done"]
    /\ UNCHANGED programVars

NextContainerName == SessionKeyReturn \/ ContainerNameReturn

SpecContainerName == InitContainerName /\ [][NextContainerName]_vars

(***************************************************************************)
(* recoverOrphanedJobs on the container of one session, for every session  *)
(* key: the session has an active job that is running, whose record holds  *)
(* containerNameFromSessionKey(sessionKey), and the container of that name *)
(* is listed running or stopped.                                           *)
(***************************************************************************)
SessionKeys == Keys \ {<<>>}

InitRecoverKeys ==
    /\ InitIdlePlugin
    /\ \E sessionKey \in SessionKeys, running \in BOOLEAN :
          call = [fn |-> "recoverOrphanedJobs", pc |-> "sessionKey",
                  session |-> sessionKey, jobStatus |-> "running", active |-> TRUE,
                  name |-> containerNameFromSessionKey(sessionKey),
                  listedRunning |-> running, exists |-> TRUE,
                  key |-> [null |-> TRUE, value |-> <<>>], matched |-> FALSE]

\* sessionKeyFromContainerName(container.name); `if (!sessionKey) continue`
\* skips null and the empty string.
RecoverSessionKey ==
    /\ call.fn = "recoverOrphanedJobs" /\ call.pc = "sessionKey"
    /\ LET key == sessionKeyFromContainerName(call.name)
       IN  call' = [call EXCEPT !.key = key,
                                !.pc = IF key.null \/ key.value = <<>>
                                       THEN "done" ELSE "getActive"]
    /\ UNCHANGED programVars

\* getActiveJob(sessionKey) is null when no session has the derived key;
\* then activeJob?.containerName === container.name.
RecoverKeyGetActive ==
    /\ call.fn = "recoverOrphanedJobs" /\ call.pc = "getActive"
    /\ LET activeJob == call.key.value = call.session /\ call.active
           matched == activeJob /\ containerNameFromSessionKey(call.session) = call.name
       IN  call' = [call EXCEPT !.matched = matched,
                                !.pc = IF ~matched THEN "orphanKill"
                                       ELSE IF call.listedRunning THEN "done"
                                       ELSE "finalize"]
    /\ UNCHANGED programVars

\* The branch of a stopped container: updateJob(terminal), setActiveJob(null)
\* and killContainer(sessionKey).
RecoverKeyFinalize ==
    /\ call.fn = "recoverOrphanedJobs" /\ call.pc = "finalize"
    /\ call' = [call EXCEPT !.jobStatus = "terminal", !.active = FALSE,
                            !.exists = containerNameFromSessionKey(call.key.value) # call.name,
                            !.pc = "done"]
    /\ UNCHANGED programVars

\* The else branch: killContainer(sessionKey) removes the container named
\* after the derived key.
RecoverKeyOrphanKill ==
    /\ call.fn = "recoverOrphanedJobs" /\ call.pc = "orphanKill"
    /\ call' = [call EXCEPT !.exists = containerNameFromSessionKey(call.key.value) # call.name,
                            !.pc = "done"]
    /\ UNCHANGED programVars

NextRecoverKeys ==
    \/ RecoverSessionKey
    \/ RecoverKeyGetActive
    \/ RecoverKeyFinalize
    \/ RecoverKeyOrphanKill

SpecRecoverKeys == InitRecoverKeys /\ [][NextRecoverKeys]_vars

(***************************************************************************)
(* calculateWaitMinutes on the reset times that rateLimitRegex accepts:    *)
(* one or two digits, then nothing, "am" or "pm".                          *)
(***************************************************************************)
MaxTwoDigits == 99
Noon == 12
HoursPerDay == 24
MinutesPerHour == 60

\* The minutes of the clock explored in each hour.
ClockMinutes == {0, 1, MinutesPerHour - 1}

\* match[1] of rateLimitRegex: parseInt of the digits, and the suffix.
ResetTimes == [hourNum : 0..MaxTwoDigits, suffix : {"", "am", "pm"}]

calculateWaitMinutes(resetTimeStr, nowUtcHours, nowUtcMinutes) ==
    LET hourNum == resetTimeStr.hourNum
        resetHour == IF resetTimeStr.suffix = "pm"
                     THEN (IF hourNum = Noon THEN Noon ELSE hourNum + Noon)
                     ELSE IF resetTimeStr.suffix = "am"
                     THEN (IF hourNum = Noon THEN 0 ELSE hourNum)
                     ELSE hourNum
        hoursUntil == IF resetHour - nowUtcHours < 0
                      THEN resetHour - nowUtcHours + HoursPerDay
                      ELSE resetHour - nowUtcHours
        minutesUntil == hoursUntil * MinutesPerHour - nowUtcMinutes
    IN  IF minutesUntil < 0 THEN minutesUntil + HoursPerDay * MinutesPerHour
        ELSE minutesUntil

InitWaitMinutes ==
    /\ InitIdlePlugin
    /\ \E resetTimeStr \in ResetTimes, nowUtcHours \in 0..(HoursPerDay - 1),
          nowUtcMinutes \in ClockMinutes :
          call = [fn |-> "calculateWaitMinutes", resetTimeStr |-> resetTimeStr,
                  nowUtcHours |-> nowUtcHours, nowUtcMinutes |-> nowUtcMinutes,
                  returned |-> FALSE, waitMinutes |-> 0]

CalculateWaitMinutesReturn ==
    /\ call.fn = "calculateWaitMinutes" /\ ~call.returned
    /\ call' = [call EXCEPT !.returned = TRUE,
                            !.waitMinutes = calculateWaitMinutes(call.resetTimeStr,
                                                call.nowUtcHours, call.nowUtcMinutes)]
    /\ UNCHANGED programVars

SpecWaitMinutes == InitWaitMinutes /\ [][CalculateWaitMinutesReturn]_vars

(***************************************************************************)
(* The writers of session.json with their time stamps: getOrCreateSession  *)
(* (createSession), updateSession and setActiveJob, called concurrently.   *)
(* Each reads the file, takes `new Date()` when its read has completed and *)
(* then writes the whole record with fs.writeFile, which opens the file    *)
(* itself with truncation and then writes the data.                        *)
(***************************************************************************)
Writers == 1..MaxWriters
SessionOps == {"getOrCreateSession", "updateSession", "setActiveJob"}
\* read: what the getSession of the last call got ("none" before it completed).
IdleWriter == [op |-> "none", pc |-> "idle", lastActivity |-> 0, read |-> "none"]

InitSessionWrites ==
    /\ InitIdlePlugin
    /\ \E exists \in BOOLEAN :
          call = [fn |-> "session", clock |-> 0,
                  file |-> [exists |-> exists, lastActivity |-> 0, complete |-> TRUE],
                  writer |-> [w \in Writers |-> IdleWriter]]

\* A tool handler, a watcher or the recovery calls the store.
SessionCall(w, op) ==
    /\ call.fn = "session" /\ call.writer[w].pc = "idle"
    /\ call' = [call EXCEPT !.writer[w] = [IdleWriter EXCEPT !.op = op, !.pc = "read"]]
    /\ UNCHANGED programVars

\* getSession: what readFile and JSON.parse give.  A missing file is null
\* (ENOENT); a file that does not hold the whole text of a record makes
\* JSON.parse throw a SyntaxError, which getSession throws on.
getSession(file) ==
    IF ~file.exists THEN "null"
    ELSE IF ~file.complete THEN "SyntaxError"
    ELSE "record"

\* getSession completes.  getOrCreateSession returns an existing session and
\* creates a missing one; updateSession and setActiveJob throw "Session not
\* found" for a missing one.  A call that goes on takes lastActivity from the
\* clock.
SessionRead(w) ==
    /\ call.fn = "session" /\ call.writer[w].pc = "read"
    /\ LET got == getSession(call.file)
           goesOn == IF call.writer[w].op = "getOrCreateSession"
                     THEN got = "null" ELSE got = "record"
       IN  call' = IF goesOn
                   THEN [call EXCEPT !.writer[w].pc = "write",
                                     !.writer[w].read = got,
                                     !.writer[w].lastActivity = call.clock]
                   ELSE [call EXCEPT !.writer[w] = [IdleWriter EXCEPT !.read = got]]
    /\ UNCHANGED programVars

\* fs.writeFile(sessionFile, ...), first half: open(path, "w") creates the
\* file or truncates it to length zero.
SessionOpen(w) ==
    /\ call.fn = "session" /\ call.writer[w].pc = "write"
    /\ call' = [call EXCEPT !.file.exists = TRUE, !.file.complete = FALSE,
                            !.writer[w].pc = "data"]
    /\ UNCHANGED programVars

\* fs.writeFile(sessionFile, JSON.stringify(session)), second half: the data
\* is written and the call completes.
SessionWrite(w) ==
    /\ call.fn = "session" /\ call.writer[w].pc = "data"
    /\ call' = [call EXCEPT !.file = [exists |-> TRUE, complete |-> TRUE,
                                      lastActivity |-> call.writer[w].lastActivity],
                            !.writer[w] = [IdleWriter EXCEPT !.read = call.writer[w].read]]
    /\ UNCHANGED programVars

\* Time passes.
ClockTick ==
    /\ call.fn = "session" /\ call.clock < MaxClock
    /\ call' = [call EXCEPT !.clock = @ + 1]
    /\ UNCHANGED programVars

NextSessionWrites ==
    \/ \E w \in Writers :
          \/ \E op \in SessionOps : SessionCall(w, op)
          \/ SessionRead(w)
          \/ SessionOpen(w)
          \/ SessionWrite(w)
    \/ ClockTick

SpecSessionWrites == InitSessionWrites /\ [][NextSessionWrites]_vars

(***************************************************************************)
(* getJob called while createJob writes the job file.  createJob writes    *)
(* jobs/<jobId>.json with fs.writeFile: the file is created empty and then *)
(* filled.  The file of the model is "absent", "empty", "partial" (a       *)
(* prefix of the text) or "record" (the whole text).                       *)
(***************************************************************************)
Retries == 3
Readers == 1..MaxReaders
IdleReader == [pc |-> "idle", attempt |-> 0, result |-> "none", saw |-> "none"]

InitGetJob ==
    /\ InitIdlePlugin
    /\ call = [fn |-> "getJob", file |-> "absent",
               reader |-> [r \in Readers |-> IdleReader]]

\* createJob: fs.writeFile(jobFile, ...) opens the file, which creates it empty.
CreateJobOpen ==
    /\ call.fn = "getJob" /\ call.file = "absent"
    /\ call' = [call EXCEPT !.file = "empty"]
    /\ UNCHANGED programVars

\* createJob: fs.writeFile writes the text, all of it or a first part.
CreateJobWrite(whole) ==
    /\ call.fn = "getJob" /\ call.file \in {"empty", "partial"}
    /\ call' = [call EXCEPT !.file = IF whole THEN "record" ELSE "partial"]
    /\ UNCHANGED programVars

\* getJob(sessionKey, jobId) is called with the default of three retries.
GetJobCall(r) ==
    /\ call.fn = "getJob" /\ call.reader[r].pc \in {"idle", "returned"}
    /\ call' = [call EXCEPT !.reader[r] = [IdleReader EXCEPT !.pc = "read"]]
    /\ UNCHANGED programVars

\* One pass of the loop of getJob: readFile, the test of empty data, the parse
\* and the catch.  `saw` is the file this pass read.
getJobAttempt(reader, file) ==
    LET last == ~(reader.attempt < Retries - 1)
        retry == [reader EXCEPT !.attempt = @ + 1, !.saw = file]
        return(result) == [reader EXCEPT !.pc = "returned", !.result = result,
                                         !.saw = file]
    IN  CASE file = "absent" -> return("null")
          [] file = "empty" -> IF last THEN return("null") ELSE retry
          [] file = "partial" -> IF last THEN return("SyntaxError") ELSE retry
          [] OTHER -> return("record")

\* A pass of the loop runs (after the backoff of the pass before it).
GetJobRead(r) ==
    /\ call.fn = "getJob" /\ call.reader[r].pc = "read"
    /\ call' = [call EXCEPT !.reader[r] = getJobAttempt(call.reader[r], call.file)]
    /\ UNCHANGED programVars

NextGetJob ==
    \/ CreateJobOpen
    \/ \E whole \in BOOLEAN : CreateJobWrite(whole)
    \/ \E r \in Readers : GetJobCall(r) \/ GetJobRead(r)

SpecGetJob == InitGetJob /\ [][NextGetJob]_vars

(***************************************************************************)
(* Properties                                                              *)
(***************************************************************************)

ActiveJobs == {j \in Jobs : job[j].status \in Active}

\* C1: at every instant the session has at most one job whose status is
\* pending or running, whatever the interleaving of the handlers (two
\* claude_code_start calls racing on the session included).
C1_AtMostOneActiveJob == Cardinality(ActiveJobs) <= 1

\* C2: in every reachable state the activeJobId of the session is null or
\* names an existing job record whose status is pending or running.
C2_ActivePointerNamesActiveJob ==
    (session.exists /\ session.activeJobId # NoCode)
        => job[session.activeJobId].status \in Active

\* C3: once a job record holds a terminal status, its status, completedAt,
\* exitCode and errorType never change again (the record may be deleted with
\* its session).
C3_TerminalRecordFrozen ==
    [][\A j \in Jobs :
          (job[j].status \in Terminal /\ job'[j].status # "absent")
              => /\ job'[j].status = job[j].status
                 /\ job'[j].completedAt = job[j].completedAt
                 /\ job'[j].exitCode = job[j].exitCode
                 /\ job'[j].errorType = job[j].errorType]_vars

\* C4: when claude_code_cancel has set the record of a job to cancelled, no
\* step of the watcher of that job changes the record: the watcher sees that
\* the job is no longer running and persists nothing.
C4_WatcherKeepsCancelled ==
    [][\A j \in Jobs :
          (job[j].status = "cancelled" /\ watch'[j] # watch[j])
              => job'[j] = job[j]]_vars

StatusEdges == { <<"pending", "running">>, <<"pending", "failed">>,
                 <<"running", "completed">>, <<"running", "failed">>,
                 <<"running", "cancelled">> }

\* C5: the status of a job record changes only along pending -> running,
\* pending -> failed, running -> completed, running -> failed and
\* running -> cancelled, and pending -> running is written only by the
\* claude_code_start call of the job after startDetached has succeeded.
C5_StatusChangesAlongEdges ==
    [][\A j \in Jobs :
          /\ (/\ job[j].status # "absent"
              /\ job'[j].status # "absent"
              /\ job'[j].status # job[j].status)
                 => <<job[j].status, job'[j].status>> \in StatusEdges
          /\ (job[j].status = "pending" /\ job'[j].status = "running")
                 => start[j].pc = "runningWrite"]_vars

\* Nothing is in flight: every call has returned, every watcher and the
\* recovery have ended, and every appendJobOutput has completed.
Quiescent ==
    /\ \A j \in StartCalls : start[j].pc \in {"idle", "rejected", "done", "threw"}
    /\ \A j \in Jobs : watch[j].pc \in {"none", "done"} /\ watch[j].pending = <<>>
    /\ cancel.pc = "idle"
    /\ status.pc = "idle"
    /\ recover.pc = "done"
    /\ cleanup = "idle"

\* Nothing is in flight and nothing is left to wait for: the container has
\* exited and was removed.
AtRest == Quiescent /\ ~container.exists

\* C6: every created job reaches a terminal status; in the form of the final
\* result of a run: once the container is gone and every step that was enabled
\* has been taken, no job is left pending or running.
C6_NoActiveJobAtRest == AtRest => ActiveJobs = {}

\* C7: of two claude_code_start calls on the session, the second returns with
\* success only when the job of the first has reached a terminal status:
\* while that job is pending or running the call is rejected with "already
\* has an active job".
C7_SecondStartNeedsFirstTerminal ==
    [][\A j \in StartCalls :
          (start[j].pc = "setActive" /\ start'[j].pc = "done")
              => \A k \in 1..(j - 1) : job[k].status \notin Active]_vars

\* C8: a claude_code_start call that was rejected by a precondition (prompt,
\* authentication, image, active job) has changed no state: it has written
\* no session record and no job record.
C8_RejectedStartWroteNothing ==
    \A j \in StartCalls : start[j].pc = "rejected" => ~start[j].wrote

\* C9: when startDetached fails for the job a claude_code_start call created,
\* the call ends by throwing that same error, and the job is recorded as
\* failed with the text of that error as its errorMessage.
C9_StartFailureRecorded ==
    [][\A j \in StartCalls :
          (start[j].caught = "runtime" /\ start[j].pc # "threw" /\ start'[j].pc = "threw")
              => /\ start'[j].err = "runtime"
                 /\ job'[j].status = "failed"
                 /\ job'[j].errorMessage = "runtime"]_vars

\* An authentication-error result line of the given kind is on the stream.
AuthErrorIn(lines, kind) ==
    \E i \in 1..Len(lines) : parseAuthError(lines[i]) = kind

\* C11: when the stream of a running job holds an authentication-error
\* result line, the terminal record the watcher writes is failed with
\* errorType auth_token_expired (expired OAuth token) or auth_failed
\* (authentication failure), whatever the exit code of the container.
C11_WatcherRecordsAuthError ==
    [][\A j \in Jobs :
          (watch[j].pc = "updWrite" /\ watch'[j].pc = "clear")
              => /\ AuthErrorIn(watch[j].lines, "token_expired")
                      => (job'[j].status = "failed"
                          /\ job'[j].errorType = "auth_token_expired")
                 /\ AuthErrorIn(watch[j].lines, "authentication_failed")
                      => (job'[j].status = "failed"
                          /\ job'[j].errorType = "auth_failed")]_vars

\* C12: when claude_code_cancel of a pending or running job returns, the
\* container of the job has been killed and removed, the job record has
\* status cancelled with completedAt set, and the activeJobId of the session
\* is null.
C12_CancelPostcondition ==
    [][(cancel.pc = "clear" /\ cancel'.result = "cancelled")
          => /\ ~(container'.exists /\ container'.owner = cancel.job)
             /\ job'[cancel.job].status = "cancelled"
             /\ job'[cancel.job].completedAt # "null"
             /\ session'.activeJobId = NoCode]_vars

\* C13: claude_code_cancel on a job that is already completed, failed or
\* cancelled returns a message and does nothing else: it kills no container,
\* writes no job or session record and posts no notification, every time it
\* is called.
C13_CancelOfTerminalJobIsNoOp ==
    [][\A j \in Jobs :
          (CancelCall(j) /\ job[j].status \in Terminal)
              => /\ cancel'.pc = "idle"
                 /\ cancel'.result = "cannot cancel"
                 /\ UNCHANGED <<session, jobsDir, job, log, container, notified>>]_vars

\* Both calls of the run were answered, the last one a claude_code_cancel that
\* found its job already terminal.
C13_CancelFoundTerminalJob ==
    /\ cancel.pc = "idle"
    /\ cancel.result = "cannot cancel"
    /\ calls = MaxCalls
    /\ \E j \in Jobs : start[j].pc = "done" /\ job[j].status \in Terminal

\* C14: over any run and any interleaving of the watcher, claude_code_cancel
\* and claude_code_status, at most one completion notification is posted for
\* a job.
C14_AtMostOneNotification == \A j \in Jobs : notified[j] <= 1

\* The terminal record of job j was written during this run by the watcher,
\* by claude_code_cancel or by claude_code_status, and not by the recovery.
FinishedByPlugin(j) ==
    /\ job[j].status \in Terminal
    /\ recover.job # j
    /\ \/ job[j].completedAt = "watcher" /\ watch[j].pc # "none"
       \/ job[j].completedAt = "cancel"
       \/ job[j].completedAt = "finishedAt"

\* C15: every job that becomes completed, failed or cancelled while the
\* plugin runs, other than by the start-up recovery, has a completion
\* notification posted for it (a webhook token is configured); in the form of
\* the final result of a run: once nothing is in flight, every such job has
\* one.
C15_FinishedJobWasNotified ==
    Quiescent => \A j \in Jobs : FinishedByPlugin(j) => notified[j] >= 1

\* C16: a claude_code_status call on a job recorded as running whose
\* container is not running any more (it has exited, or it no longer exists)
\* does not return before the job record is terminal and the activeJobId of
\* the session no longer names the job.
C16_StatusHealsStoppedJob ==
    [][(/\ status.pc = "inspect"
        /\ status'.pc = "idle"
        /\ job[status.job].status = "running"
        /\ ~(container.exists /\ container.running))
          => /\ job'[status.job].status \in Terminal
             /\ session'.activeJobId # status.job]_vars

\* C17: for a stopped container that matches the active job of its session,
\* the start-up recovery writes the job as completed if the exit code is 0
\* and as failed otherwise, with the finishedAt and the exit code that the
\* runtime reports, then clears activeJobId and removes the container, and it
\* sends no notification.
C17_RecoveryOfStoppedContainer ==
    [][/\ (recover.pc = "updWrite" /\ recover'.pc = "clear")
          => LET j == recover.job
             IN  /\ job'[j].exitCode \in ExitCodes
                 /\ job'[j].status = IF job'[j].exitCode = 0 THEN "completed"
                                     ELSE "failed"
                 /\ job'[j].completedAt = "finishedAt"
       /\ (recover.pc = "kill" /\ recover'.pc = "done")
          => /\ session'.activeJobId = NoCode
             /\ ~container'.exists
             /\ notified' = notified]_vars

\* C18: a container that at start-up is running and matches the active job
\* of its session is left alone by the recovery: no step of the recovery
\* writes a job record or the session, and none removes the container while
\* it still runs.
C18_RecoveryLeavesRunningJob ==
    [][(/\ recover' # recover
        /\ recover.listed.running
        /\ recover.matched # NoCode)
       => /\ job' = job
          /\ session' = session
          /\ (container.running => container' = container)]_vars

ProposedRecords(j) ==
    {updatedByStart(k) : k \in {k \in StartCalls : k = j /\ start[k].pc = "runningWrite"}}
    \cup {updatedByStartCatch(k) :
             k \in {k \in StartCalls : k = j /\ start[k].pc = "failedWrite"}}
    \cup {updatedByWatcher(k) : k \in {k \in Jobs : k = j /\ watch[k].pc = "updWrite"}}
    \cup (IF cancel.pc = "updWrite" /\ cancel.job = j THEN {updatedByCancel} ELSE {})
    \cup (IF status.pc = "updWrite" /\ status.job = j THEN {updatedByStatus} ELSE {})
    \cup (IF status.pc = "metricsWrite" /\ status.job = j THEN {updatedByMetrics} ELSE {})
    \cup (IF recover.pc = "updWrite" /\ recover.job = j THEN {updatedByRecovery} ELSE {})

\* C20: whenever the file of an existing job is replaced while updateJob
\* calls run concurrently on it, its new content is exactly the record one of
\* those calls proposed, never a mixture of two records or a partial one.
C20_JobFileIsOneProposedRecord ==
    [][\A j \in Jobs :
          (job[j].status # "absent" /\ job'[j] # job[j] /\ job'[j].status # "absent")
          => job'[j] \in ProposedRecords(j)]_vars

\* Two updateJob calls on one job had both read it, and the file holds the
\* record of the one that renamed first while the other is still to rename.
C20_TwoWritersOneRenamed ==
    \E j \in Jobs :
       /\ cancel.pc = "notify" /\ cancel.job = j
       /\ watch[j].pc = "updWrite"
       /\ job[j].status = "cancelled"
       /\ job[j].completedAt = "cancel"
       /\ updatedByWatcher(j) # job[j]

\* p is a prefix of q.
IsPrefix(p, q) == Len(p) <= Len(q) /\ p = SubSeq(q, 1, Len(p))

\* C21: the output log of a job holds the text fragments in the order in
\* which the parser emitted them: at every moment the log is a prefix of the
\* fragments of the stream.
C21_LogInEmissionOrder ==
    \A j \in Jobs :
        watch[j].pc \notin {"none", "stream"}
            => IsPrefix(log[j], extractTextFromStream(watch[j].lines))

\* C22: readJobOutput(offset N, limit L) returns as content the bytes of the
\* log from N up to min(N + L, totalSize); hasMore is true exactly when N plus
\* the number of bytes returned is less than totalSize; for N at or beyond
\* totalSize the content is empty and hasMore is false.
C22_ReadJobOutputSlice ==
    (call.fn = "readJobOutput" /\ call.returned)
    => LET N == call.offset
           L == call.limit
           total == Len(call.file)
           r == call.result
       IN  /\ utf8Encode(r.content) = SubSeq(call.file, N + 1, Min(N + L, total))
           /\ r.hasMore <=> (N + r.size < total)
           /\ N >= total => (r.content = <<>> /\ ~r.hasMore)

\* C23, as stated: for every string s that begins with "claude-",
\* containerNameFromSessionKey(sessionKeyFromContainerName(s)) = s;
\* sessionKeyFromContainerName is null for every other string; and the empty
\* session key round-trips through "claude-".
C23_RoundTripOnEveryName ==
    (call.fn = "sessionKeyFromContainerName" /\ call.pc = "done")
    => /\ startsWith(call.name, ClaudePrefix) => (~call.key.null /\ call.back = call.name)
       /\ ~startsWith(call.name, ClaudePrefix) => call.key.null
       /\ call.name = ClaudePrefix => call.key.value = <<>>

\* C23, amended: the round trip is the identity on the strings "claude-" + k
\* with every character of k a letter, a digit or a hyphen (the names
\* containerNameFromSessionKey produces); sessionKeyFromContainerName is null
\* for every string that does not begin with "claude-"; and the empty session
\* key round-trips through "claude-".
C23_RoundTripOnSanitizedNames ==
    (call.fn = "sessionKeyFromContainerName" /\ call.pc = "done")
    => /\ (/\ startsWith(call.name, ClaudePrefix)
           /\ \A i \in (PrefixLength + 1)..Len(call.name) : call.name[i] \in NameChars)
          => (~call.key.null /\ call.back = call.name)
       /\ ~startsWith(call.name, ClaudePrefix) => call.key.null
       /\ call.name = ClaudePrefix => (call.key.value = <<>> /\ call.back = ClaudePrefix)

\* The round trip of a name with a key of letters, digits and a hyphen has
\* returned the name.
C23_RoundTripReturnedName ==
    /\ call.fn = "sessionKeyFromContainerName" /\ call.pc = "done"
    /\ call.name = ClaudePrefix \o <<"a", "-", "7">>
    /\ call.key = [null |-> FALSE, value |-> <<"a", "-", "7">>]
    /\ call.back = call.name

\* C24: for every reset time that the rate-limit pattern accepts and every
\* time of the UTC clock, 0 <= waitMinutes < 1440.
C24_WaitMinutesWithinADay ==
    (call.fn = "calculateWaitMinutes" /\ call.returned)
    => (0 <= call.waitMinutes /\ call.waitMinutes < HoursPerDay * MinutesPerHour)

\* C25: the lastActivity stored in the session record never decreases, in any
\* interleaving of getOrCreateSession, updateSession and setActiveJob.
C25_LastActivityNeverDecreases ==
    [][(call.fn = "session" /\ call.file.exists)
       => call'.file.lastActivity >= call.file.lastActivity]_vars

\* The step is the setActiveJob(null) of a finisher of job j: its watcher,
\* claude_code_cancel, claude_code_status or the recovery.
ClearsOnBehalfOf(j) ==
    \/ watch[j].pc = "clear" /\ watch'[j].pc # "clear"
    \/ cancel.pc = "clear" /\ cancel.job = j /\ cancel'.pc # "clear"
    \/ status.pc = "clear" /\ status.job = j /\ status'.pc # "clear"
    \/ recover.pc = "clear" /\ recover.job = j /\ recover'.pc # "clear"

\* C26: a finisher of job j sets activeJobId to null only while activeJobId
\* refers to j; it never nulls a pointer that refers to another job.
C26_PointerClearedOnlyForItsJob ==
    [][\A j \in Jobs :
          (/\ ClearsOnBehalfOf(j)
           /\ session.activeJobId # NoCode
           /\ session'.exists /\ session'.activeJobId = NoCode)
          => session.activeJobId = j]_vars

\* C27: setActiveJob(j) of claude_code_start fails and leaves the session
\* record as it is whenever activeJobId is not null and refers to a job other
\* than j.
C27_SetActiveJobFailsOnOtherJob ==
    [][\A j \in StartCalls :
          (/\ start[j].pc = "setActive" /\ start'[j].pc # "setActive"
           /\ session.exists
           /\ session.activeJobId \notin {NoCode, j})
          => (session' = session /\ start'[j].pc # "done")]_vars

\* C28: no write of a job record, however stale the copy its writer holds,
\* turns a record that is terminal back into pending or running.
C28_LateWriteKeepsTerminal ==
    [][\A j \in Jobs :
          job[j].status \in Terminal => job'[j].status \notin Active]_vars

\* C29: the terminal status and errorType that claude_code_status and the
\* recovery write for a job whose stopped container is still there are the
\* ones the watcher records for the same exit code and transcript (failed
\* with rate_limit for a rate-limit result, also on exit code 0).
C29_HealClassifiesLikeWatcher ==
    [][\A j \in Jobs :
          (/\ \/ status.pc = "updWrite" /\ status.job = j /\ status'.pc = "clear"
              \/ recover.pc = "updWrite" /\ recover.job = j /\ recover'.pc = "clear"
           /\ container.exists /\ ~container.running /\ container.owner = j)
          => LET c == WatcherClassify(RateLimitSeen(container.lines), container.exitCode)
             IN  job'[j].status = c.status /\ job'[j].errorType = c.errorType]_vars

\* C30: a failure inside the watcher of a job is recovered by the watcher:
\* when it has ended on a Store error, the record of its job is failed with
\* errorType crash and the activeJobId of the session is null (no call of a
\* tool is involved).
C30_WatcherFailureRecovered ==
    \A j \in Jobs :
        watch[j].pc = "threw"
            => /\ job[j].status = "failed"
               /\ job[j].errorType = "crash"
               /\ session.activeJobId = NoCode

\* C31: a terminal transition of the watcher or of Cancel persists the record,
\* then clears the pointer, then notifies: at the step that emits a
\* notification for job j the job is terminal and the session's activeJobId
\* does not refer to j.
C31_NotifiedAfterPointerCleared ==
    [][\A j \in Jobs :
          notified'[j] > notified[j]
              => /\ job[j].status \in Terminal
                 /\ ~(session.exists /\ session.activeJobId = j)]_vars

\* C32: a reader of session.json that runs concurrently with any writer gets
\* the whole previous record or the whole new record (or finds no file before
\* the session was created), never an empty or partially written file.
C32_SessionReaderGetsWholeRecord ==
    call.fn = "session"
        => \A w \in Writers : call.writer[w].read \in {"none", "null", "record"}

\* C33: getJob returns null only for a job file that is absent: a file that
\* exists but is empty or partly written while its writer is in progress is
\* never reported as an absent job.
C33_GetJobNullOnlyWhenAbsent ==
    call.fn = "getJob"
        => \A r \in Readers :
              (call.reader[r].pc = "returned" /\ call.reader[r].result = "null")
                  => call.reader[r].saw = "absent"

\* C34: claude_code_cleanup never deletes a session that has a pending or
\* running job: at the step that removes the session directory no job of the
\* session is pending or running.
C34_CleanupSparesActiveJob ==
    [][(cleanup = "delete" /\ ~session'.exists)
          => \A j \in Jobs : job[j].status \notin Active]_vars

\* The step is the killContainer of a claude_code_cancel or claude_code_status
\* call that acts on job j.
KillsOnBehalfOf(j) ==
    \/ cancel.pc = "kill" /\ cancel.job = j /\ cancel'.pc # "kill"
    \/ status.pc = "kill" /\ status.job = j /\ status'.pc # "kill"

\* C35: claude_code_cancel or claude_code_status acting on job j never kills
\* or removes the running container of another job of the session.
C35_StaleCallSparesOtherContainer ==
    [][\A j \in Jobs :
          (KillsOnBehalfOf(j) /\ container.exists /\ container.running)
              => container.owner = j]_vars

\* C36: the killContainer of claude_code_start never kills or removes the
\* container of another job of the session that is still pending or running,
\* overlapping claude_code_start calls included.
C36_StartSparesActiveJobContainer ==
    [][\A j \in StartCalls :
          (start[j].pc = "kill" /\ start'[j].pc = "run" /\ container.exists
              /\ container.owner # j)
              => job[container.owner].status \notin Active]_vars

\* C37: for every session key the reconciler finds the session that owns the
\* container named containerNameFromSessionKey(key), and it does not remove
\* the container of a job that is the running active job of its session.
C37_ReconcilerFindsSessionOfEveryKey ==
    (call.fn = "recoverOrphanedJobs" /\ call.pc = "done")
        => /\ call.matched
           /\ (call.listedRunning /\ call.active /\ call.jobStatus = "running")
                  => call.exists

\* Job j was created by a claude_code_start call of this run of the plugin,
\* that is, after register() started the reconciler.
StartedAfterStartup(j) == start[j].wrote /\ job[j].status # "absent"

\* C38: the reconciler, which runs concurrently with the tool calls, never
\* removes the container of a job started after plugin start-up and never
\* writes a terminal record to such a job.
C38_ReconcilerSparesNewJob ==
    [][/\ (recover.pc \in {"kill", "orphanKill"} /\ recover'.pc = "done"
              /\ container.exists)
          => ~StartedAfterStartup(container.owner)
       /\ (recover.pc = "updWrite" /\ job' # job)
          => ~StartedAfterStartup(recover.job)]_vars

\* C39: every text fragment of a job's container is written to the job's log
\* once: while the container of job j exists, the log of j holds no more
\* fragments than the transcript of the container, whatever the watcher,
\* claude_code_status and the reconciler have appended.
C39_EachFragmentLoggedOnce ==
    \A j \in Jobs :
        (container.exists /\ container.owner = j)
            => Len(log[j]) <= Len(extractTextFromStream(container.lines))

\* C40: when the watcher persists the terminal record of job j, every text
\* fragment it extracted from the stream has been written to the log, and
\* nothing is appended to the log of a job whose record is terminal.
C40_LogCompleteBeforeTerminal ==
    [][\A j \in Jobs :
          /\ (watch[j].pc = "updWrite" /\ job'[j].status \in Terminal)
                => watch[j].pending = <<>>
          /\ job[j].status \in Terminal => log'[j] = log[j]]_vars

\* A rate-limit signal on the stream: a result event that is an error and
\* whose text says that the limit was hit and when it resets.
RateLimitSignalIn(lines) ==
    \E i \in 1..Len(lines) :
        /\ lines[i].type = "result"
        /\ lines[i].is_error
        /\ lines[i].result = "hit your limit resets 8pm (UTC)"

\* C10: the terminal record the watcher writes for a running job: failed with
\* errorType rate_limit when a rate-limit signal was on the stream, whatever
\* the exit code; otherwise failed with oom on exit code 137; otherwise failed
\* with crash on any other non-zero exit code; otherwise completed with no
\* errorType.
C10_WatcherClassification ==
    [][\A j \in Jobs :
          (watch[j].pc = "updWrite" /\ watch'[j].pc = "clear")
              => LET seen == RateLimitSignalIn(watch[j].lines)
                     code == watch[j].exitCode
                     kind == <<job'[j].status, job'[j].errorType>>
                 IN  /\ seen => kind = <<"failed", "rate_limit">>
                     /\ (~seen /\ code = 137) => kind = <<"failed", "oom">>
                     /\ (~seen /\ code # 137 /\ code # 0) => kind = <<"failed", "crash">>
                     /\ (~seen /\ code = 0) => kind = <<"completed", "null">>
                     /\ job'[j].exitCode = code]_vars

\* The watcher has just recorded a rate-limited job whose container exited
\* with code 0.
C10_RateLimitOnCleanExit ==
    \E j \in Jobs :
        /\ watch[j].pc = "clear"
        /\ RateLimitSignalIn(watch[j].lines)
        /\ watch[j].exitCode = 0
        /\ job[j].status = "failed"
        /\ job[j].errorType = "rate_limit"
        /\ job[j].completedAt = "watcher"

====
